---- MODULE Spec2Model ----
(***************************************************************************)
(* Period search and phase folding of the variable-star notebook           *)
(* (07b_Variable_Star_Lightcurves): the single-star pipeline of section 2, *)
(* the candidate batch of section 3, and the phase formula on its own.     *)
(*                                                                         *)
(* Real numbers (times in days, frequencies in cycles per day, periods,    *)
(* phases) are exact rationals <<numerator, denominator>> in lowest terms  *)
(* with a positive denominator.  A zero denominator holds what numpy's     *)
(* float division gives for a zero divisor: <<1,0>> and <<-1,0>> are +inf  *)
(* and -inf, <<0,0>> is nan.                                               *)
(***************************************************************************)
EXTENDS Integers, Sequences, FiniteSets, TLC

\* ---------------------------------------------------------------- bounds
\* rows of an input table
MaxObs == 4
\* observation times are whole days 0..MaxTime
MaxTime == 1
\* magnitudes are 0..MaxMag
MaxMag == 1
\* number of frequencies of a periodogram grid
NGrid == 3
\* periodogram powers are 0..MaxPower
MaxPower == 1

\* ------------------------------------------------------ rational numbers
Abs(n) == IF n < 0 THEN -n ELSE n

Sign(n) == IF n < 0 THEN -1 ELSE IF n = 0 THEN 0 ELSE 1

RECURSIVE GCD(_, _)
GCD(a, b) == IF b = 0 THEN a ELSE GCD(b, a % b)

\* the float n/d
Rat(n, d) ==
    IF d = 0 THEN <<Sign(n), 0>>
    ELSE LET g == GCD(Abs(n), Abs(d))
             s == Sign(d)
         IN  <<(s * n) \div g, (s * d) \div g>>

NaN == <<0, 0>>

IsFinite(x) == x[2] # 0

RAdd(x, y) ==
    IF IsFinite(x) /\ IsFinite(y)
    THEN Rat(x[1] * y[2] + y[1] * x[2], x[2] * y[2])
    ELSE NaN

RSub(x, y) ==
    IF IsFinite(x) /\ IsFinite(y)
    THEN Rat(x[1] * y[2] - y[1] * x[2], x[2] * y[2])
    ELSE NaN

RMul(x, y) ==
    IF IsFinite(x) /\ IsFinite(y)
    THEN Rat(x[1] * y[1], x[2] * y[2])
    ELSE NaN

\* x / y as numpy divides floats: a zero divisor gives inf or nan, no exception
RDiv(x, y) ==
    IF IsFinite(x) /\ IsFinite(y)
    THEN Rat(x[1] * y[2], x[2] * y[1])
    ELSE IF IsFinite(x) /\ y[1] # 0 THEN <<0, 1>>
    ELSE NaN

RLess(x, y) == IsFinite(x) /\ IsFinite(y) /\ x[1] * y[2] < y[1] * x[2]

RLeq(x, y) == IsFinite(x) /\ IsFinite(y) /\ x[1] * y[2] <= y[1] * x[2]

Zero == <<0, 1>>

One == <<1, 1>>

\* np.fmod(x, 1.0) instead: the remainder keeps the sign of x
Fmod1(x) ==
    IF IsFinite(x) THEN Rat(Sign(x[1]) * (Abs(x[1]) % x[2]), x[2]) ELSE NaN

\* np.mod(x, 1.0): x - floor(x); nan for an infinite or nan x
Mod1(x) ==
    IF IsFinite(x) THEN Rat(x[1] % x[2], x[2]) ELSE NaN

\* np.mean of a non-empty sequence of numbers
RECURSIVE RSum(_)
RSum(s) == IF s = <<>> THEN Zero ELSE RAdd(s[1], RSum(Tail(s)))

\* np.sum instead of np.mean
SumOnly(s) == RSum(s)

Mean(s) == RDiv(RSum(s), <<Len(s), 1>>)

\* ------------------------------------------------------ program constants
\* bands of the single-star pipeline: the first NumBands labels of the list
NumBands == 2

plot_filter_labels == SubSeq(<<"u", "g", "r", "i", "z", "y">>, 1, NumBands)

Bands == {plot_filter_labels[i] : i \in 1..NumBands}

min_period == Rat(5, 100)

max_period == Rat(105, 100)

min_freq_search == RDiv(One, max_period)

max_freq_search == RDiv(One, min_period)

\* ------------------------------------------------------------- helpers
\* table[mask] losing the first selected row
MaskedSkipFirst(table, mask) ==
    LET F[i \in 0..Len(table)] ==
            IF i = 0 THEN <<>>
            ELSE IF mask[i] THEN Append(F[i - 1], table[i]) ELSE F[i - 1]
    IN  IF F[Len(table)] = <<>> THEN <<>> ELSE Tail(F[Len(table)])

\* table[mask] keeping one row of each value
MaskedUnique(table, mask) ==
    LET F[i \in 0..Len(table)] ==
            IF i = 0 THEN <<>>
            ELSE IF mask[i] /\ \A k \in 1..Len(F[i - 1]) : F[i - 1][k] # table[i]
                 THEN Append(F[i - 1], table[i]) ELSE F[i - 1]
    IN  F[Len(table)]

\* table[mask] in reverse table order
MaskedReversed(table, mask) ==
    LET F[i \in 0..Len(table)] ==
            IF i = 0 THEN <<>>
            ELSE IF mask[i] THEN <<table[i]>> \o F[i - 1] ELSE F[i - 1]
    IN  F[Len(table)]

\* table[mask] falling back to the whole table when the mask selects nothing
MaskedOrAll(table, mask) ==
    LET F[i \in 0..Len(table)] ==
            IF i = 0 THEN <<>>
            ELSE IF mask[i] THEN Append(F[i - 1], table[i]) ELSE F[i - 1]
    IN  IF F[Len(table)] = <<>> THEN table ELSE F[Len(table)]

\* table[mask]: the rows whose mask entry is true, in table order
Masked(table, mask) ==
    LET F[i \in 0..Len(table)] ==
            IF i = 0 THEN <<>>
            ELSE IF mask[i] THEN Append(F[i - 1], table[i]) ELSE F[i - 1]
    IN  F[Len(table)]

\* np.min of a non-empty sequence of numbers
Min(s) == CHOOSE x \in {s[i] : i \in 1..Len(s)} :
              \A j \in 1..Len(s) : RLeq(x, s[j])

\* np.argmin instead: the first index holding the smallest value
ArgMin(pw) ==
    CHOOSE i \in 1..Len(pw) :
        /\ \A j \in 1..Len(pw) : pw[i] <= pw[j]
        /\ \A j \in 1..(i - 1) : pw[i] < pw[j]

\* the last index holding the largest value instead of the first
ArgMaxLast(pw) ==
    CHOOSE i \in 1..Len(pw) :
        /\ \A j \in 1..Len(pw) : pw[j] <= pw[i]
        /\ \A j \in (i + 1)..Len(pw) : pw[j] < pw[i]

\* np.argmax: the first index holding the largest value
ArgMax(pw) ==
    CHOOSE i \in 1..Len(pw) :
        /\ \A j \in 1..Len(pw) : pw[j] <= pw[i]
        /\ \A j \in 1..(i - 1) : pw[j] < pw[i]

\* every table of at most MaxObs rows
Tables(Rows) == UNION {[1..n -> Rows] : n \in 0..MaxObs}

\* ------------------------------------------------- periodogram library
\* LombScargle(t, y).autopower(minimum_frequency, maximum_frequency) is a
\* library call.  Its frequency grid starts at the minimum frequency and
\* rises in equal steps; the model gives it NGrid points.  In the pipelines
\* the last point is the maximum frequency itself, which is all the claims
\* settled on them need (they use the order of the grid only); where the
\* grid ends against the maximum is modelled in SpecGrid (FrequencySteps).
\* The powers are any values: the notebook uses them only through argmax.
AutoFrequency(minf, maxf) ==
    [k \in 1..NGrid |->
        RAdd(minf, RDiv(RMul(<<k - 1, 1>>, RSub(maxf, minf)), <<NGrid - 1, 1>>))]

PowerArrays == [1..NGrid -> 0..MaxPower]

\* The notebook hands every series to the library unchecked.  On a series
\* of fewer than two points the library either raises its own exception or
\* returns arrays all the same; both outcomes are kept.
MayRaise(t) == Len(t) < 2

\* ---------------------------------------------------------- phase fold
\* the fold with the epoch left out: t / period
PhaseNoEpoch(t, epoch, period) == Mod1(RDiv(t, period))

\* mjd_norm = (t - t0) / period ; phase = np.mod(mjd_norm, 1.0)
PhaseOf(t, epoch, period) == Mod1(RDiv(RSub(t, epoch), period))

FoldSeries(ts, epoch, period) ==
    [i \in 1..Len(ts) |-> PhaseOf(ts[i], epoch, period)]

\* ------------------------------------------------------------ plotting
\* mags - np.mean(mags) + i: the magnitudes about their mean, moved by i
Centered(m, i) ==
    LET mean == Mean([k \in 1..Len(m) |-> <<m[k], 1>>])
    IN  [k \in 1..Len(m) |-> RAdd(RSub(<<m[k], 1>>, mean), <<i, 1>>)]

\* i of the plotting loop when it reaches the band: 0 for the first label
BandOffset(b) ==
    (CHOOSE k \in 1..Len(plot_filter_labels) : plot_filter_labels[k] = b) - 1

\* ----------------------------------------------------------------- state
VARIABLES
    srcs,            \* ForcedSource rows of the one star: band, time, magnitude
    pick,            \* band -> boolean mask over srcs
    mjd_days,        \* band -> times of the band
    mags,            \* band -> magnitudes of the band
    frequency,       \* band -> frequency grid of the band's periodogram
    power,           \* band -> powers of the band's periodogram
    all_peak_freqs,  \* per band, the frequency of highest power
    mean_peak_freq,
    best_period,
    t0,
    phase,           \* band -> phases of the band
    fig,             \* band -> the points the phased plots draw
    pc,              \* the cell the single-star pipeline has reached
    dia_sources,     \* DiaSource rows of the candidates: object, time, magnitude
    objids,          \* the distinct object identifiers, ascending
    LSpower,         \* per object, the highest power
    LSfreq,          \* per object, the frequency of highest power
    obj_frequency,   \* the frequency grid of the object estimated last
    obj_power,       \* the powers of the object estimated last
    max_power,       \* the index of its highest power
    plots,           \* per object folded so far: identifier, period, phases
    bpc,             \* the cell the batch has reached
    fold_times,      \* a series of times handed to the phase formula
    fold_t0,         \* the epoch handed to it
    fold_period,     \* the period handed to it
    fold_phase,      \* the phases it returned
    fpc,
    dia_objects,     \* DiaObject rows of the catalog the query runs on
    circle_closed,   \* whether the service's CIRCLE holds its own boundary
    selected,        \* the DiaObject rows the query's WHERE clause keeps
    qpc,
    search_range,    \* <<minimum_frequency, maximum_frequency>> of an autopower call
    grid_frequency,  \* the frequencies it returned
    grid_power,      \* the powers it returned
    peak_freq,       \* the frequency at np.argmax of the powers
    peak_period,     \* its reciprocal
    gpc,
    boresight,       \* the sky position looked up: its HTM trixel path
    htm_id,          \* pixelization.index(...) of the position
    calexp_query,    \* spatial constraint of queryDatasets("calexp", ...)
    source_query,    \* spatial constraint of queryDatasets("source", ...)
    hpc

starVars == <<srcs, pick, mjd_days, mags, frequency, power, all_peak_freqs,
              mean_peak_freq, best_period, t0, phase, fig, pc>>

batchVars == <<dia_sources, objids, LSpower, LSfreq, obj_frequency, obj_power,
               max_power, plots, bpc>>

foldVars == <<fold_times, fold_t0, fold_period, fold_phase, fpc>>

filterVars == <<dia_objects, circle_closed, selected, qpc>>

gridVars == <<search_range, grid_frequency, grid_power, peak_freq, peak_period, gpc>>

htmVars == <<boresight, htm_id, calexp_query, source_query, hpc>>

vars == <<starVars, batchVars, foldVars, filterVars, gridVars, htmVars>>

\* a name not yet assigned
Unset == <<>>

SrcRows == [band : Bands, expMidptMJD : 0..MaxTime, psfMag : 0..MaxMag]

StarIdle ==
    /\ srcs = Unset
    /\ pick = Unset
    /\ mjd_days = Unset
    /\ mags = Unset
    /\ frequency = Unset
    /\ power = Unset
    /\ all_peak_freqs = Unset
    /\ mean_peak_freq = Unset
    /\ best_period = Unset
    /\ t0 = Unset
    /\ phase = Unset
    /\ fig = Unset
    /\ pc = "idle"

BatchIdle ==
    /\ dia_sources = Unset
    /\ objids = Unset
    /\ LSpower = Unset
    /\ LSfreq = Unset
    /\ obj_frequency = Unset
    /\ obj_power = Unset
    /\ max_power = 0
    /\ plots = Unset
    /\ bpc = "idle"

FoldIdle ==
    /\ fold_times = Unset
    /\ fold_t0 = Unset
    /\ fold_period = Unset
    /\ fold_phase = Unset
    /\ fpc = "idle"

FilterIdle ==
    /\ dia_objects = Unset
    /\ circle_closed = FALSE
    /\ selected = Unset
    /\ qpc = "idle"

HtmIdle ==
    /\ boresight = Unset
    /\ htm_id = Unset
    /\ calexp_query = Unset
    /\ source_query = Unset
    /\ hpc = "idle"

GridIdle ==
    /\ search_range = Unset
    /\ grid_frequency = Unset
    /\ grid_power = Unset
    /\ peak_freq = Unset
    /\ peak_period = Unset
    /\ gpc = "idle"

\* ------------------------------------------- single-star pipeline (sec. 2)
Init ==
    /\ BatchIdle
    /\ FoldIdle
    /\ FilterIdle
    /\ GridIdle
    /\ HtmIdle
    /\ srcs \in Tables(SrcRows)
    /\ pick = Unset
    /\ mjd_days = Unset
    /\ mags = Unset
    /\ frequency = Unset
    /\ power = Unset
    /\ all_peak_freqs = Unset
    /\ mean_peak_freq = Unset
    /\ best_period = Unset
    /\ t0 = Unset
    /\ phase = Unset
    /\ fig = Unset
    /\ pc = "start"

\* pick[filter] true on every row whose band is any of the labels
PickAny ==
    /\ pc = "start"
    /\ pick' = [b \in Bands |-> [i \in 1..Len(srcs) |-> srcs[i].band \in Bands]]
    /\ pc' = "picked"
    /\ UNCHANGED <<srcs, mjd_days, mags, frequency, power, all_peak_freqs,
                   mean_peak_freq, best_period, t0, phase>>
    /\ UNCHANGED <<fig, batchVars, foldVars, filterVars, gridVars, htmVars>>

\* pick[filter] = (srcs['band'] == filter)
Pick ==
    /\ pc = "start"
    /\ pick' = [b \in Bands |-> [i \in 1..Len(srcs) |-> srcs[i].band = b]]
    /\ pc' = "picked"
    /\ UNCHANGED <<srcs, mjd_days, mags, frequency, power, all_peak_freqs,
                   mean_peak_freq, best_period, t0, phase>>
    /\ UNCHANGED <<fig, batchVars, foldVars, filterVars, gridVars, htmVars>>

\* mjd_days[filter], mags[filter] = the band's rows of srcs
Extract ==
    /\ pc = "picked"
    /\ mjd_days' = [b \in Bands |->
            LET rows == Masked(srcs, pick[b])
            IN  [i \in 1..Len(rows) |-> <<rows[i].expMidptMJD, 1>>]]
    /\ mags' = [b \in Bands |->
            LET rows == Masked(srcs, pick[b])
            IN  [i \in 1..Len(rows) |-> rows[i].psfMag]]
    /\ pc' = "extracted"
    /\ UNCHANGED <<srcs, pick, frequency, power, all_peak_freqs,
                   mean_peak_freq, best_period, t0, phase>>
    /\ UNCHANGED <<fig, batchVars, foldVars, filterVars, gridVars, htmVars>>

\* the band the periodogram loop handles next
NextBand == plot_filter_labels[Cardinality(DOMAIN frequency) + 1]

\* one pass of the periodogram loop, the library returning its arrays
Periodogram ==
    /\ pc = "extracted"
    /\ Cardinality(DOMAIN frequency) < NumBands
    /\ \E pw \in PowerArrays :
        /\ frequency' = frequency @@
               (NextBand :> AutoFrequency(min_freq_search, max_freq_search))
        /\ power' = power @@ (NextBand :> pw)
    /\ UNCHANGED <<srcs, pick, mjd_days, mags, all_peak_freqs,
                   mean_peak_freq, best_period, t0, phase, pc>>
    /\ UNCHANGED <<fig, batchVars, foldVars, filterVars, gridVars, htmVars>>

\* one pass of the periodogram loop, the library raising: the cell stops
PeriodogramRaises ==
    /\ pc = "extracted"
    /\ Cardinality(DOMAIN frequency) < NumBands
    /\ MayRaise(mjd_days[NextBand])
    /\ pc' = "raised"
    /\ UNCHANGED <<srcs, pick, mjd_days, mags, frequency, power,
                   all_peak_freqs, mean_peak_freq, best_period, t0, phase>>
    /\ UNCHANGED <<fig, batchVars, foldVars, filterVars, gridVars, htmVars>>

\* peakbin = np.argmax(power[filter]) per band, then the mean of the peaks
Peaks ==
    /\ pc = "extracted"
    /\ Cardinality(DOMAIN frequency) = NumBands
    /\ all_peak_freqs' = [i \in 1..NumBands |->
            frequency[plot_filter_labels[i]][ArgMax(power[plot_filter_labels[i]])]]
    /\ mean_peak_freq' = Mean(all_peak_freqs')
    /\ pc' = "peaks"
    /\ UNCHANGED <<srcs, pick, mjd_days, mags, frequency, power,
                   best_period, t0, phase>>
    /\ UNCHANGED <<fig, batchVars, foldVars, filterVars, gridVars, htmVars>>

\* best_period = 1/mean_peak_freq
BestPeriod ==
    /\ pc = "peaks"
    /\ best_period' = RDiv(One, mean_peak_freq)
    /\ pc' = "period"
    /\ UNCHANGED <<srcs, pick, mjd_days, mags, frequency, power,
                   all_peak_freqs, mean_peak_freq, t0, phase>>
    /\ UNCHANGED <<fig, batchVars, foldVars, filterVars, gridVars, htmVars>>

\* the fold taking t0 off the stored times: mjd_days[filter] -= t0
FoldInPlace ==
    /\ pc = "period"
    /\ mjd_days["g"] # <<>>
    /\ t0' = Min(mjd_days["g"])
    /\ mjd_days' = [b \in Bands |->
            [i \in 1..Len(mjd_days[b]) |-> RSub(mjd_days[b][i], t0')]]
    /\ phase' = [b \in Bands |-> FoldSeries(mjd_days[b], t0', best_period)]
    /\ pc' = "folded"
    /\ UNCHANGED <<srcs, pick, mags, frequency, power,
                   all_peak_freqs, mean_peak_freq, best_period>>
    /\ UNCHANGED <<fig, batchVars, foldVars, filterVars, gridVars, htmVars>>

\* t0 = np.min(mjd_days['g']), then the phases of every band
Fold ==
    /\ pc = "period"
    /\ mjd_days["g"] # <<>>
    /\ t0' = Min(mjd_days["g"])
    /\ phase' = [b \in Bands |-> FoldSeries(mjd_days[b], t0', best_period)]
    /\ pc' = "folded"
    /\ UNCHANGED <<srcs, pick, mjd_days, mags, frequency, power,
                   all_peak_freqs, mean_peak_freq, best_period>>
    /\ UNCHANGED <<fig, batchVars, foldVars, filterVars, gridVars, htmVars>>

\* np.min of an empty array raises
FoldRaises ==
    /\ pc = "period"
    /\ mjd_days["g"] = <<>>
    /\ pc' = "raised"
    /\ UNCHANGED <<srcs, pick, mjd_days, mags, frequency, power,
                   all_peak_freqs, mean_peak_freq, best_period, t0, phase>>
    /\ UNCHANGED <<fig, batchVars, foldVars, filterVars, gridVars, htmVars>>

\* the offset i added to mags[filter] in place before plotting
PlotPhasedInPlace ==
    /\ pc = "folded"
    /\ mags' = [b \in Bands |-> [k \in 1..Len(mags[b]) |-> mags[b][k] + BandOffset(b)]]
    /\ fig' = [b \in Bands |->
            [phase |-> phase[b],
             separate |-> Centered(mags[b], BandOffset(b)),
             together |-> Centered(mags[b], 0)]]
    /\ pc' = "plotted"
    /\ UNCHANGED <<srcs, pick, mjd_days, frequency, power,
                   all_peak_freqs, mean_peak_freq, best_period, t0, phase>>
    /\ UNCHANGED <<batchVars, foldVars, filterVars, gridVars, htmVars>>

\* the two phased plots: plt.plot(phase[filter],
\* mags[filter]-np.mean(mags[filter]) + i, ...) band by band, i = 0, 1, ...,
\* then the same without the offset
PlotPhased ==
    /\ pc = "folded"
    /\ fig' = [b \in Bands |->
            [phase |-> phase[b],
             separate |-> Centered(mags[b], BandOffset(b)),
             together |-> Centered(mags[b], 0)]]
    /\ pc' = "plotted"
    /\ UNCHANGED <<srcs, pick, mjd_days, mags, frequency, power,
                   all_peak_freqs, mean_peak_freq, best_period, t0, phase>>
    /\ UNCHANGED <<batchVars, foldVars, filterVars, gridVars, htmVars>>

Next ==
    \/ Pick
    \/ Extract
    \/ Periodogram
    \/ PeriodogramRaises
    \/ Peaks
    \/ BestPeriod
    \/ Fold
    \/ FoldRaises
    \/ PlotPhased

Spec == Init /\ [][Next]_vars

\* ------------------------------------------------ candidate batch (sec. 3)
\* number of distinct object identifiers a table may hold
MaxObj == 2

DiaRows == [diaObjectId : 1..MaxObj, midPointTai : 0..MaxTime, gmag : 0..MaxMag]

minfreq == RDiv(One, Rat(125, 100))

maxfreq == RDiv(One, Rat(5, 100))

\* np.unique: the distinct values, ascending
RECURSIVE Ascending(_)
Ascending(S) ==
    IF S = {} THEN <<>>
    ELSE LET m == CHOOSE x \in S : \A y \in S : x <= y
         IN  <<m>> \o Ascending(S \ {m})

\* the column as it is, np.unique left out
NotUnique(column) == column

Unique(column) == Ascending({column[i] : i \in 1..Len(column)})

\* dia_sources[dia_sources['diaObjectId'] <= objid]: the rows of the
\* objects up to this one
RowsUpTo(objid) ==
    Masked(dia_sources,
           [i \in 1..Len(dia_sources) |-> dia_sources[i].diaObjectId <= objid])

\* dia_sources[dia_sources['diaObjectId'] == objid]
RowsOf(objid) ==
    Masked(dia_sources,
           [i \in 1..Len(dia_sources) |-> dia_sources[i].diaObjectId = objid])

obj_mjd_days(objid) ==
    [i \in 1..Len(RowsOf(objid)) |-> <<RowsOf(objid)[i].midPointTai, 1>>]

obj_mags(objid) ==
    [i \in 1..Len(RowsOf(objid)) |-> RowsOf(objid)[i].gmag]

\* the table the catalog query returned
InitBatch ==
    /\ StarIdle
    /\ FoldIdle
    /\ FilterIdle
    /\ GridIdle
    /\ HtmIdle
    /\ dia_sources \in Tables(DiaRows)
    /\ objids = Unset
    /\ LSpower = Unset
    /\ LSfreq = Unset
    /\ obj_frequency = Unset
    /\ obj_power = Unset
    /\ max_power = 0
    /\ plots = Unset
    /\ bpc = "queried"

\* objids = np.unique(dia_sources['diaObjectId']); LSpower = []; LSfreq = []
Objids ==
    /\ bpc = "queried"
    /\ objids' = Unique([i \in 1..Len(dia_sources) |-> dia_sources[i].diaObjectId])
    /\ LSpower' = <<>>
    /\ LSfreq' = <<>>
    /\ bpc' = "estimating"
    /\ UNCHANGED <<dia_sources, obj_frequency, obj_power, max_power, plots>>
    /\ UNCHANGED <<starVars, foldVars, filterVars, gridVars, htmVars>>

\* one pass of the estimation loop putting its results at the front of the
\* lists: LSpower.insert(0, ...), LSfreq.insert(0, ...)
EstimateInsertFirst ==
    /\ bpc = "estimating"
    /\ Len(LSfreq) < Len(objids)
    /\ obj_frequency' = AutoFrequency(minfreq, maxfreq)
    /\ obj_power' \in PowerArrays
    /\ max_power' = ArgMax(obj_power')
    /\ LSpower' = <<obj_power'[max_power']>> \o LSpower
    /\ LSfreq' = <<obj_frequency'[max_power']>> \o LSfreq
    /\ UNCHANGED <<dia_sources, objids, plots, bpc>>
    /\ UNCHANGED <<starVars, foldVars, filterVars, gridVars, htmVars>>

\* one pass of the estimation loop, the library returning its arrays
Estimate ==
    /\ bpc = "estimating"
    /\ Len(LSfreq) < Len(objids)
    /\ obj_frequency' = AutoFrequency(minfreq, maxfreq)
    /\ obj_power' \in PowerArrays
    /\ max_power' = ArgMax(obj_power')
    /\ LSpower' = Append(LSpower, obj_power'[max_power'])
    /\ LSfreq' = Append(LSfreq, obj_frequency'[max_power'])
    /\ UNCHANGED <<dia_sources, objids, plots, bpc>>
    /\ UNCHANGED <<starVars, foldVars, filterVars, gridVars, htmVars>>

\* one pass of the estimation loop, the library raising: the loop stops
EstimateRaises ==
    /\ bpc = "estimating"
    /\ Len(LSfreq) < Len(objids)
    /\ MayRaise(obj_mjd_days(objids[Len(LSfreq) + 1]))
    /\ bpc' = "raised"
    /\ UNCHANGED <<dia_sources, objids, LSpower, LSfreq, obj_frequency, obj_power,
                   max_power, plots>>
    /\ UNCHANGED <<starVars, foldVars, filterVars, gridVars, htmVars>>

\* the estimation loop is over
Estimated ==
    /\ bpc = "estimating"
    /\ Len(LSfreq) = Len(objids)
    /\ plots' = <<>>
    /\ bpc' = "folding"
    /\ UNCHANGED <<dia_sources, objids, LSpower, LSfreq, obj_frequency, obj_power,
                   max_power>>
    /\ UNCHANGED <<starVars, foldVars, filterVars, gridVars, htmVars>>

\* the folding loop taking the period from the frequency the estimation
\* loop left in obj_frequency[max_power] on its last pass
FoldObjectStale ==
    /\ bpc = "folding"
    /\ Len(plots) < Len(objids)
    /\ LET i == Len(plots) + 1
           obj_period == RDiv(One, obj_frequency[max_power])
       IN  plots' = Append(plots,
               [objid |-> objids[i],
                period |-> obj_period,
                phase |-> FoldSeries(obj_mjd_days(objids[i]), Zero, obj_period)])
    /\ UNCHANGED <<dia_sources, objids, LSpower, LSfreq, obj_frequency, obj_power,
                   max_power, bpc>>
    /\ UNCHANGED <<starVars, foldVars, filterVars, gridVars, htmVars>>

\* one pass of the folding loop: obj_period = 1 / LSfreq[i], t0 = 0.0
FoldObject ==
    /\ bpc = "folding"
    /\ Len(plots) < Len(objids)
    /\ LET i == Len(plots) + 1
           obj_period == RDiv(One, LSfreq[i])
       IN  plots' = Append(plots,
               [objid |-> objids[i],
                period |-> obj_period,
                phase |-> FoldSeries(obj_mjd_days(objids[i]), Zero, obj_period)])
    /\ UNCHANGED <<dia_sources, objids, LSpower, LSfreq, obj_frequency, obj_power,
                   max_power, bpc>>
    /\ UNCHANGED <<starVars, foldVars, filterVars, gridVars, htmVars>>

\* the folding loop is over
Folded ==
    /\ bpc = "folding"
    /\ Len(plots) = Len(objids)
    /\ bpc' = "done"
    /\ UNCHANGED <<dia_sources, objids, LSpower, LSfreq, obj_frequency, obj_power,
                   max_power, plots>>
    /\ UNCHANGED <<starVars, foldVars, filterVars, gridVars, htmVars>>

NextBatch ==
    \/ Objids
    \/ Estimate
    \/ EstimateRaises
    \/ Estimated
    \/ FoldObject
    \/ Folded

SpecBatch == InitBatch /\ [][NextBatch]_vars

\* --------------------------------------------- the phase formula alone
\* length of a series handed to the formula
MaxFoldLen == 2
\* its times and epoch are whole days 0..MaxFoldTime
MaxFoldTime == 11
\* its period is n/d days, n in -MaxPeriodNum..MaxPeriodNum, d in 1..MaxPeriodDen
MaxPeriodNum == 4
MaxPeriodDen == 2

FoldTimes == {<<t, 1>> : t \in 0..MaxFoldTime}

FoldPeriods ==
    {Rat(n, d) : n \in (-MaxPeriodNum)..MaxPeriodNum, d \in 1..MaxPeriodDen}

InitFold ==
    /\ StarIdle
    /\ BatchIdle
    /\ FilterIdle
    /\ GridIdle
    /\ HtmIdle
    /\ fold_times \in UNION {[1..n -> FoldTimes] : n \in 0..MaxFoldLen}
    /\ fold_t0 \in FoldTimes
    /\ fold_period \in FoldPeriods
    /\ fold_phase = Unset
    /\ fpc = "given"

\* the two lines of the folding cells, on any series, epoch and period
FoldGiven ==
    /\ fpc = "given"
    /\ fold_phase' = FoldSeries(fold_times, fold_t0, fold_period)
    /\ fpc' = "folded"
    /\ UNCHANGED <<fold_times, fold_t0, fold_period>>
    /\ UNCHANGED <<starVars, batchVars, filterVars, gridVars, htmVars>>

NextFold == FoldGiven

SpecFold == InitFold /\ [][NextFold]_vars

\* ------------------------------------- candidate query (sec. 3.1), WHERE
\* rows of the DiaObject table the query may run on
MaxCat == 2

\* the literals of the WHERE clause
loRatio == Rat(25, 100)

hiRatio == Rat(125, 100)

magLo == 18

magHi == 23

minCount == 30

minVariabilityStatistic == 20

radius == 5

Thresholds ==
    [loRatio |-> loRatio, hiRatio |-> hiRatio, magLo |-> magLo, magHi |-> magHi,
     minCount |-> minCount, minVariabilityStatistic |-> minVariabilityStatistic,
     radius |-> radius]

\* CONTAINS(POINT(obj.ra, obj.decl), CIRCLE(ra, dec, radius)) = 1, on the
\* angular separation of the object from the circle's centre; whether a
\* point on the circle itself counts is the service's choice
InCircle(sep, r, closed) == sep < r \/ (closed /\ sep = r)

\* the WHERE clause with N < minCount: the comparison turned round
SelectedCountBelow(obj, thr, closed) ==
    /\ RLess(thr.loRatio, RDiv(<<obj.gTOTFluxSigma, 1>>, <<obj.gTOTFluxMean, 1>>))
    /\ RLess(RDiv(<<obj.gTOTFluxSigma, 1>>, <<obj.gTOTFluxMean, 1>>), thr.hiRatio)
    /\ obj.gmag_obj > thr.magLo
    /\ obj.gmag_obj < thr.magHi
    /\ obj.gPSFluxNdata < thr.minCount
    /\ obj.gPSFluxStetsonJ > thr.minVariabilityStatistic
    /\ InCircle(obj.sep, thr.radius, closed)

\* the WHERE clause with OR before the count criterion
SelectedCountOr(obj, thr, closed) ==
    \/ /\ RLess(thr.loRatio, RDiv(<<obj.gTOTFluxSigma, 1>>, <<obj.gTOTFluxMean, 1>>))
       /\ RLess(RDiv(<<obj.gTOTFluxSigma, 1>>, <<obj.gTOTFluxMean, 1>>), thr.hiRatio)
       /\ obj.gmag_obj > thr.magLo
       /\ obj.gmag_obj < thr.magHi
    \/ /\ obj.gPSFluxNdata > thr.minCount
       /\ obj.gPSFluxStetsonJ > thr.minVariabilityStatistic
       /\ InCircle(obj.sep, thr.radius, closed)

\* the WHERE clause with StetsonJ >= 20
SelectedStetsonInclusive(obj, thr, closed) ==
    /\ RLess(thr.loRatio, RDiv(<<obj.gTOTFluxSigma, 1>>, <<obj.gTOTFluxMean, 1>>))
    /\ RLess(RDiv(<<obj.gTOTFluxSigma, 1>>, <<obj.gTOTFluxMean, 1>>), thr.hiRatio)
    /\ obj.gmag_obj > thr.magLo
    /\ obj.gmag_obj < thr.magHi
    /\ obj.gPSFluxNdata > thr.minCount
    /\ obj.gPSFluxStetsonJ >= thr.minVariabilityStatistic
    /\ InCircle(obj.sep, thr.radius, closed)

\* the object-level conjuncts of the WHERE clause.  gmag_obj is
\* scisql_nanojanskyToAbMag(obj.gTOTFluxMean) as the service computes it;
\* a zero gTOTFluxMean gives no ratio and the comparisons are not true.
Selected(obj, thr, closed) ==
    /\ RLess(thr.loRatio, RDiv(<<obj.gTOTFluxSigma, 1>>, <<obj.gTOTFluxMean, 1>>))
    /\ RLess(RDiv(<<obj.gTOTFluxSigma, 1>>, <<obj.gTOTFluxMean, 1>>), thr.hiRatio)
    /\ obj.gmag_obj > thr.magLo
    /\ obj.gmag_obj < thr.magHi
    /\ obj.gPSFluxNdata > thr.minCount
    /\ obj.gPSFluxStetsonJ > thr.minVariabilityStatistic
    /\ InCircle(obj.sep, thr.radius, closed)

\* a query that stops at its first matching row
SearchFirstOnly(table, thr, closed) ==
    LET hits == Masked(table, [i \in 1..Len(table) |-> Selected(table[i], thr, closed)])
    IN  IF hits = <<>> THEN <<>> ELSE <<hits[1]>>

\* service.search(query): the rows of the table the WHERE clause keeps
Search(table, thr, closed) ==
    Masked(table, [i \in 1..Len(table) |-> Selected(table[i], thr, closed)])

\* a row of DiaObject: the columns the WHERE clause reads, and the angular
\* separation of (ra, decl) from the circle's centre
DiaObject(sigma, mean, mag, n, v, sep) ==
    [gTOTFluxSigma |-> sigma, gTOTFluxMean |-> mean, gmag_obj |-> mag,
     gPSFluxNdata |-> n, gPSFluxStetsonJ |-> v, sep |-> sep]

\* DiaObject rows: every combination of a value failing and a value passing
\* each criterion; with the other criteria passing, the values on the other
\* side of the scatter and magnitude bands, each threshold's own value and a
\* zero mean flux; and the two objects N = 40 and N = 10
DiaObjects ==
    {DiaObject(sigma, 4, mag, n, v, sep) :
        sigma \in {2, 6}, mag \in {19, 24},
        n \in {minCount - 1, minCount + 1},
        v \in {minVariabilityStatistic - 1, minVariabilityStatistic + 1},
        sep \in {radius - 1, radius + 1}}
    \cup {DiaObject(sigma, 4, 19, minCount + 1, minVariabilityStatistic + 1, radius - 1) :
            sigma \in {0, 1, 5}}
    \cup {DiaObject(2, 4, mag, minCount + 1, minVariabilityStatistic + 1, radius - 1) :
            mag \in {magLo - 1, magLo, magHi}}
    \cup {DiaObject(2, 4, 19, minCount, minVariabilityStatistic + 1, radius - 1),
          DiaObject(2, 4, 19, minCount + 1, minVariabilityStatistic, radius - 1),
          DiaObject(2, 4, 19, minCount + 1, minVariabilityStatistic + 1, radius),
          DiaObject(2, 0, 19, minCount + 1, minVariabilityStatistic + 1, radius - 1),
          DiaObject(2, 4, 19, 40, 25, radius - 1),
          DiaObject(2, 4, 19, 10, 25, radius - 1)}

InitFilter ==
    /\ StarIdle
    /\ BatchIdle
    /\ FoldIdle
    /\ GridIdle
    /\ HtmIdle
    /\ dia_objects \in UNION {[1..n -> DiaObjects] : n \in 0..MaxCat}
    /\ circle_closed \in BOOLEAN
    /\ selected = Unset
    /\ qpc = "query"

\* results = service.search(query)
RunQuery ==
    /\ qpc = "query"
    /\ selected' = Search(dia_objects, Thresholds, circle_closed)
    /\ qpc' = "results"
    /\ UNCHANGED <<dia_objects, circle_closed>>
    /\ UNCHANGED <<starVars, batchVars, foldVars, gridVars, htmVars>>

NextFilter == RunQuery

SpecFilter == InitFilter /\ [][NextFilter]_vars

\* ====================================================== the claims
\* number of periods a time is shifted by, either way
MaxShift == 2

\* the number of periods elapsed since the epoch, for the i-th given time
Elapsed(i) == RDiv(RSub(fold_times[i], fold_t0), fold_period)

\* C1: for every period P > 0, epoch t0 and time t (t < t0 included) the
\* phase ((t - t0)/P) mod 1 is a number with 0 <= phase < 1: never
\* negative, never 1.
C1_PhaseRange ==
    (fpc = "folded" /\ RLess(Zero, fold_period)) =>
        \A i \in 1..Len(fold_phase) :
            RLeq(Zero, fold_phase[i]) /\ RLess(fold_phase[i], One)

\* a folded series with a time before the epoch whose phase is not 0
C1_Witness ==
    /\ fpc = "folded"
    /\ RLess(Zero, fold_period)
    /\ \E i \in 1..Len(fold_phase) :
        RLess(fold_times[i], fold_t0) /\ RLess(Zero, fold_phase[i])

\* C2: the phase of each observation is the fractional part of the number
\* of periods elapsed since the epoch (the elapsed count minus the phase is
\* a whole number and the phase lies in [0, 1)); 2.75 periods after t0 the
\* phase is 0.75; there is one phase per observation.
C2_PhaseIsFraction ==
    (fpc = "folded" /\ RLess(Zero, fold_period)) =>
        /\ Len(fold_phase) = Len(fold_times)
        /\ \A i \in 1..Len(fold_times) :
            /\ RLeq(Zero, fold_phase[i]) /\ RLess(fold_phase[i], One)
            /\ RSub(Elapsed(i), fold_phase[i])[2] = 1
            /\ Elapsed(i) = <<11, 4>> => fold_phase[i] = <<3, 4>>

\* an observation 2.75 periods after the epoch, folded
C2_Witness ==
    /\ fpc = "folded"
    /\ RLess(Zero, fold_period)
    /\ \E i \in 1..Len(fold_times) :
        Elapsed(i) = <<11, 4>> /\ fold_phase[i] = <<3, 4>>

\* C3: for a period P > 0 and an epoch t0, the phase of t + k*P is the
\* phase of t, for every integer k, negative ones included.
C3_PhasePeriodic ==
    (fpc = "folded" /\ RLess(Zero, fold_period)) =>
        \A i \in 1..Len(fold_times) : \A k \in (-MaxShift)..MaxShift :
            PhaseOf(RAdd(fold_times[i], RMul(<<k, 1>>, fold_period)),
                    fold_t0, fold_period) = fold_phase[i]

\* a fold whose period is not a whole number of days, with a time whose
\* phase is not 0 and whose shifts by k periods fall on both sides of t0
C3_Witness ==
    /\ fpc = "folded"
    /\ RLess(Zero, fold_period)
    /\ fold_period[2] # 1
    /\ \E i \in 1..Len(fold_times) :
        /\ RLess(Zero, fold_phase[i])
        /\ RLess(fold_t0, fold_times[i])
        /\ RLess(RSub(fold_times[i], RMul(<<MaxShift, 1>>, fold_period)), fold_t0)

LastEstimated == Len(LSfreq)

\* a series of two or more observations, all of one magnitude
Degenerate(m) == Len(m) >= 2 /\ \A i, j \in 1..Len(m) : m[i] = m[j]

\* a series the estimator is meant for: two points or more, not all equal
Sound(m) == Len(m) >= 2 /\ ~Degenerate(m)

\* C4: the best frequency of a series is a frequency of its grid whose
\* power is the largest of the whole grid (no grid frequency has a
\* strictly greater power), and the period used afterwards is exactly the
\* reciprocal of that frequency.
C4_BestFrequencyIsArgmax ==
    /\ LastEstimated > 0 =>
          \E k \in 1..Len(obj_frequency) :
              /\ LSfreq[LastEstimated] = obj_frequency[k]
              /\ LSpower[LastEstimated] = obj_power[k]
              /\ \A j \in 1..Len(obj_power) : obj_power[j] <= obj_power[k]
    /\ \A i \in 1..Len(plots) :
          /\ RLess(Zero, plots[i].period)
          /\ RMul(plots[i].period, LSfreq[i]) = One

\* an object whose highest power is not at the first grid frequency,
\* estimated last and folded
C4_Witness ==
    /\ bpc = "done"
    /\ Len(plots) = LastEstimated
    /\ LastEstimated > 0
    /\ Sound(obj_mags(objids[LastEstimated]))
    /\ max_power > 1
    /\ \E j \in 1..Len(obj_power) : obj_power[j] < obj_power[max_power]

\* C5: when several grid frequencies share the largest power, the best
\* frequency is the lowest of them (the first of the increasing grid), so
\* its period is the longest among the tied maxima.
C5_TieBreakLowest ==
    LastEstimated > 0 =>
        \A k \in 1..Len(obj_power) :
            obj_power[k] = LSpower[LastEstimated] =>
                /\ RLeq(LSfreq[LastEstimated], obj_frequency[k])
                /\ RLeq(RDiv(One, obj_frequency[k]), RDiv(One, LSfreq[LastEstimated]))

\* a periodogram whose largest power is held by two grid frequencies and
\* not by all of them
C5_Witness ==
    /\ LastEstimated > 0
    /\ Sound(obj_mags(objids[LastEstimated]))
    /\ \E j, k \in 1..Len(obj_power) :
        /\ j < k
        /\ obj_power[j] = LSpower[LastEstimated]
        /\ obj_power[k] = LSpower[LastEstimated]
    /\ \E j \in 1..Len(obj_power) : obj_power[j] < LSpower[LastEstimated]

\* C6: each band's best frequency comes from that band's own periodogram,
\* the consensus frequency is the arithmetic mean of the per-band best
\* frequencies, and the consensus period is 1 divided by that mean.
C6_ConsensusIsMeanFrequency ==
    pc \in {"period", "folded"} =>
        /\ Len(all_peak_freqs) = NumBands
        /\ \A i \in 1..NumBands :
              LET b == plot_filter_labels[i]
              IN  \E k \in 1..Len(power[b]) :
                      /\ all_peak_freqs[i] = frequency[b][k]
                      /\ \A j \in 1..Len(power[b]) : power[b][j] <= power[b][k]
                      /\ \A j \in 1..(k - 1) : power[b][j] < power[b][k]
        /\ RMul(mean_peak_freq, <<NumBands, 1>>) = RSum(all_peak_freqs)
        /\ RMul(best_period, mean_peak_freq) = One

\* two bands with different best frequencies: the consensus period is not
\* the mean of the two periods
C6_Witness ==
    /\ pc = "folded"
    /\ \A b \in Bands : Sound(mags[b])
    /\ all_peak_freqs[1] # all_peak_freqs[2]
    /\ best_period #
           Mean([i \in 1..NumBands |-> RDiv(One, all_peak_freqs[i])])

\* C7: on a series of fewer than 2 observations the Period Estimator
\* signals InsufficientDataError and records no periodogram and no best
\* frequency for that series.
C7_InsufficientDataSignalled ==
    \A b \in DOMAIN frequency : Len(mjd_days[b]) >= 2

\* C9: the argmax frequency of a series whose magnitudes are all identical
\* is never reported or used for folding as an ordinary period.
C9_DegenerateNotFolded ==
    \A i \in 1..Len(plots) : ~Degenerate(obj_mags(plots[i].objid))

\* an object whose analysis is to fail: too few points or no variance
Failing(objid) ==
    Len(obj_mjd_days(objid)) < 2 \/ Degenerate(obj_mags(objid))

\* C10: when the analysis of one object of a batch fails, every other
\* object is still processed to its own result and the failing object gets
\* a failure record instead of a result.
C10_BatchIsolation ==
    (/\ bpc \in {"done", "raised"}
     /\ \E i \in 1..Len(objids) : Failing(objids[i])
     /\ \E i \in 1..Len(objids) : ~Failing(objids[i])) =>
        \A i \in 1..Len(objids) :
            (\E j \in 1..Len(plots) : plots[j].objid = objids[i])
                <=> ~Failing(objids[i])


\* --------------------------------------------- candidate query, claims
RelativeScatter(obj) == RDiv(<<obj.gTOTFluxSigma, 1>>, <<obj.gTOTFluxMean, 1>>)

\* the five criteria as the specification words them, bounds included
MeetsAll(obj) ==
    /\ IsFinite(RelativeScatter(obj))
    /\ RLeq(loRatio, RelativeScatter(obj))
    /\ RLeq(RelativeScatter(obj), hiRatio)
    /\ obj.gmag_obj >= magLo
    /\ obj.gmag_obj <= magHi
    /\ obj.gPSFluxNdata >= minCount
    /\ obj.gPSFluxStetsonJ >= minVariabilityStatistic
    /\ obj.sep <= radius

\* strictly inside every threshold
InsideAll(obj) ==
    /\ IsFinite(RelativeScatter(obj))
    /\ RLess(loRatio, RelativeScatter(obj))
    /\ RLess(RelativeScatter(obj), hiRatio)
    /\ obj.gmag_obj > magLo
    /\ obj.gmag_obj < magHi
    /\ obj.gPSFluxNdata > minCount
    /\ obj.gPSFluxStetsonJ > minVariabilityStatistic
    /\ obj.sep < radius

\* the object is a row of the query's result
IsSelected(obj) == \E k \in 1..Len(selected) : selected[k] = obj

InCatalog(obj) == \E i \in 1..Len(dia_objects) : dia_objects[i] = obj

\* relative scatter 0.5, magnitude 19, V = 25, inside the circle
Example(n) == DiaObject(2, 4, 19, n, 25, radius - 1)

\* C11: the query selects an object only if it meets all five criteria at
\* once (relative scatter, magnitude, detection count, variability statistic,
\* sky position); an object failing any one of them is rejected, an object
\* strictly inside every threshold is selected; the object with scatter 0.5,
\* magnitude 19, N = 40, V = 25 inside the circle is selected and the same
\* object with N = 10 is rejected.
C11_FilterConjunction ==
    qpc = "results" =>
        /\ \A i \in 1..Len(dia_objects) :
            /\ IsSelected(dia_objects[i]) => MeetsAll(dia_objects[i])
            /\ ~MeetsAll(dia_objects[i]) => ~IsSelected(dia_objects[i])
            /\ InsideAll(dia_objects[i]) => IsSelected(dia_objects[i])
        /\ InCatalog(Example(40)) => IsSelected(Example(40))
        /\ InCatalog(Example(10)) => ~IsSelected(Example(10))

C11_Witness ==
    /\ qpc = "results"
    /\ dia_objects = <<Example(10), Example(40)>>
    /\ selected = <<Example(40)>>

\* every criterion but the detection count strictly inside its threshold
InsideAllButCount(obj) ==
    /\ IsFinite(RelativeScatter(obj))
    /\ RLess(loRatio, RelativeScatter(obj))
    /\ RLess(RelativeScatter(obj), hiRatio)
    /\ obj.gmag_obj > magLo
    /\ obj.gmag_obj < magHi
    /\ obj.gPSFluxStetsonJ > minVariabilityStatistic
    /\ obj.sep < radius

\* C12: the count bound is inclusive: an object with exactly minCount = 30
\* detections that satisfies every other criterion is selected.
C12_CountBoundInclusive ==
    qpc = "results" =>
        \A i \in 1..Len(dia_objects) :
            (dia_objects[i].gPSFluxNdata = minCount /\ InsideAllButCount(dia_objects[i]))
                => IsSelected(dia_objects[i])

\* every criterion but the variability statistic strictly inside its threshold
InsideAllButStetson(obj) ==
    /\ IsFinite(RelativeScatter(obj))
    /\ RLess(loRatio, RelativeScatter(obj))
    /\ RLess(RelativeScatter(obj), hiRatio)
    /\ obj.gmag_obj > magLo
    /\ obj.gmag_obj < magHi
    /\ obj.gPSFluxNdata > minCount
    /\ obj.sep < radius

\* C13 as stated: the variability bound is inclusive: an object with
\* variability statistic exactly minVariabilityStatistic = 20 that satisfies
\* every other criterion is selected.
C13_VariabilityBoundInclusive ==
    qpc = "results" =>
        \A i \in 1..Len(dia_objects) :
            (dia_objects[i].gPSFluxStetsonJ = minVariabilityStatistic
                    /\ InsideAllButStetson(dia_objects[i]))
                => IsSelected(dia_objects[i])

\* C13 amended: the variability bound is strict: an object that satisfies
\* every other criterion is selected exactly when its variability statistic
\* is greater than 20; with the statistic exactly 20 it is rejected.
C13_VariabilityBoundStrict ==
    qpc = "results" =>
        \A i \in 1..Len(dia_objects) :
            InsideAllButStetson(dia_objects[i]) =>
                (IsSelected(dia_objects[i])
                    <=> dia_objects[i].gPSFluxStetsonJ > minVariabilityStatistic)

C13_Witness ==
    /\ qpc = "results"
    /\ Len(dia_objects) = 2
    /\ \A i \in 1..2 : InsideAllButStetson(dia_objects[i])
    /\ dia_objects[1].gPSFluxStetsonJ = minVariabilityStatistic
    /\ dia_objects[2].gPSFluxStetsonJ = minVariabilityStatistic + 1
    /\ selected = <<dia_objects[2]>>

\* the rows of a table that equal obj
CountOf(table, obj) == Cardinality({i \in 1..Len(table) : table[i] = obj})

\* the configurations got from c by loosening exactly one threshold, by one
\* of its units (a quarter for the ratios)
Looser(c) ==
    {[c EXCEPT !.minCount = @ - 1],
     [c EXCEPT !.minVariabilityStatistic = @ - 1],
     [c EXCEPT !.loRatio = RSub(@, Rat(1, 4))],
     [c EXCEPT !.hiRatio = RAdd(@, Rat(1, 4))],
     [c EXCEPT !.magLo = @ - 1],
     [c EXCEPT !.magHi = @ + 1],
     [c EXCEPT !.radius = @ + 1]}

\* the configurations got from c by tightening exactly one threshold
Stricter(c) ==
    {[c EXCEPT !.minCount = @ + 1],
     [c EXCEPT !.minVariabilityStatistic = @ + 1],
     [c EXCEPT !.loRatio = RAdd(@, Rat(1, 4))],
     [c EXCEPT !.hiRatio = RSub(@, Rat(1, 4))],
     [c EXCEPT !.magLo = @ + 1],
     [c EXCEPT !.magHi = @ - 1],
     [c EXCEPT !.radius = @ - 1]}

Configurations == {Thresholds} \cup Looser(Thresholds) \cup Stricter(Thresholds)

\* C14: for two threshold configurations that differ in exactly one
\* threshold, the second being looser (lower minCount, lower
\* minVariabilityStatistic, lower loRatio, higher hiRatio, wider magnitude
\* range or larger radius), every object selected under the stricter one is
\* selected under the looser one.
C14_MonotonicSelectivity ==
    qpc = "results" =>
        /\ \A c1 \in Configurations : \A c2 \in Looser(c1) :
            \A i \in 1..Len(dia_objects) :
                Selected(dia_objects[i], c1, circle_closed)
                    => Selected(dia_objects[i], c2, circle_closed)
        /\ \A c2 \in Looser(Thresholds) :
            LET more == Search(dia_objects, c2, circle_closed)
            IN  \A k \in 1..Len(selected) :
                    CountOf(more, selected[k]) >= CountOf(selected, selected[k])

C14_Witness ==
    /\ qpc = "results"
    /\ selected # <<>>
    /\ \E c2 \in Looser(Thresholds) :
        Len(Search(dia_objects, c2, circle_closed)) > Len(selected)

Orders(n) == {f \in [1..n -> 1..n] : \A i, j \in 1..n : f[i] = f[j] => i = j}

Permuted(table, f) == [i \in 1..Len(table) |-> table[f[i]]]

Without(table, k) == [i \in 1..(Len(table) - 1) |-> IF i < k THEN table[i] ELSE table[i + 1]]

\* C15: the query is a pure, deterministic, order-independent predicate: the
\* decision on an object depends only on its own summary statistics and the
\* thresholds, so rows with equal statistics get equal decisions, and any
\* permutation of the table, or adding or removing other objects, leaves the
\* decision on the object as it was; the query changes nothing in its table.
C15_PureOrderIndependent ==
    [][(qpc = "query" /\ qpc' = "results") =>
        /\ dia_objects' = dia_objects
        /\ selected' = Search(dia_objects, Thresholds, circle_closed)
        /\ \A i \in 1..Len(dia_objects) :
            /\ CountOf(selected', dia_objects[i]) \in {0, CountOf(dia_objects, dia_objects[i])}
            /\ \A f \in Orders(Len(dia_objects)) :
                CountOf(Search(Permuted(dia_objects, f), Thresholds, circle_closed),
                        dia_objects[i])
                    = CountOf(selected', dia_objects[i])
            /\ \A k \in 1..Len(dia_objects) :
                dia_objects[k] # dia_objects[i] =>
                    CountOf(Search(Without(dia_objects, k), Thresholds, circle_closed),
                            dia_objects[i])
                        = CountOf(selected', dia_objects[i])
        /\ \A other \in DiaObjects :
            LET more == Search(Append(dia_objects, other), Thresholds, circle_closed)
            IN  \A i \in 1..Len(dia_objects) :
                    dia_objects[i] # other =>
                        CountOf(more, dia_objects[i]) = CountOf(selected', dia_objects[i])]_vars

C15_Witness ==
    /\ qpc = "results"
    /\ Len(dia_objects) = 2
    /\ dia_objects[1] # dia_objects[2]
    /\ InsideAll(dia_objects[1])
    /\ InsideAll(dia_objects[2])
    /\ Len(selected) = 2

\* ------------------------------------------------- extractor, claims
\* the observations over all band partitions
CountAll(parts) ==
    LET F[i \in 0..Len(plot_filter_labels)] ==
            IF i = 0 THEN 0 ELSE F[i - 1] + Len(parts[plot_filter_labels[i]])
    IN  F[Len(plot_filter_labels)]

C17_PartitionDisjoint ==
    pick # Unset =>
        \A i \in 1..Len(srcs) :
            /\ \A b \in Bands : pick[b][i] <=> (srcs[i].band = b)
            /\ Cardinality({b \in Bands : pick[b][i]}) <= 1

C17_Witness ==
    /\ pc = "picked"
    /\ Len(srcs) >= 2
    /\ \E i, j \in 1..Len(srcs) : srcs[i].band # srcs[j].band
    /\ \A i \in 1..Len(srcs) : pick[srcs[i].band][i]

\* C18 as stated: for every band the extracted sequence of (time, magnitude)
\* pairs is ordered by non-decreasing time, whatever the order of the input.
C18_OrderedByTime ==
    mjd_days # Unset =>
        \A b \in Bands : \A i, j \in 1..Len(mjd_days[b]) :
            i < j => RLeq(mjd_days[b][i], mjd_days[b][j])

\* C18 amended: for every band the extracted sequence keeps the order of the
\* input table: the k-th row of the table carrying the band gives the k-th
\* (time, magnitude) pair of the band, so times are non-decreasing only where
\* the table's are.
C18_InputOrderKept ==
    mjd_days # Unset =>
        \A p \in 1..Len(srcs) :
            LET b == srcs[p].band
                k == Cardinality({q \in 1..p : srcs[q].band = b})
            IN  /\ k <= Len(mjd_days[b])
                /\ k <= Len(mags[b])
                /\ mjd_days[b][k] = <<srcs[p].expMidptMJD, 1>>
                /\ mags[b][k] = srcs[p].psfMag

C18_Witness ==
    /\ pc = "extracted"
    /\ \E b \in Bands :
        /\ Len(mjd_days[b]) >= 2
        /\ RLess(mjd_days[b][2], mjd_days[b][1])

\* the table has no row carrying the band
NoRows(b) == \A i \in 1..Len(srcs) : srcs[i].band # b

\* C19: a band with no observations yields an empty sequence and no error;
\* an empty input yields an empty sequence for every band; extraction itself
\* never fails, whatever the table.
C19_EmptyBandsExtract ==
    /\ mjd_days # Unset =>
        \A b \in Bands : NoRows(b) => (mjd_days[b] = <<>> /\ mags[b] = <<>>)
    /\ pc = "picked" => ENABLED Extract
    /\ pc = "raised" => mjd_days # Unset

C19_Witness ==
    /\ pc = "extracted"
    /\ srcs = <<>>
    /\ \A b \in Bands : mjd_days[b] = <<>> /\ mags[b] = <<>>

\* C20: pass-through: each band's sequence holds exactly the input
\* observations carrying that band label, as many times as the input does,
\* each time paired with its own magnitude; duplicates are kept and nothing
\* is added, dropped or altered.
C20_PassThrough ==
    mjd_days # Unset =>
        \A b \in Bands :
            /\ Len(mjd_days[b]) = Len(mags[b])
            /\ \A t \in 0..MaxTime : \A m \in 0..MaxMag :
                Cardinality({i \in 1..Len(mjd_days[b]) :
                                mjd_days[b][i] = <<t, 1>> /\ mags[b][i] = m})
                    = Cardinality({k \in 1..Len(srcs) :
                                srcs[k] = [band |-> b, expMidptMJD |-> t, psfMag |-> m]})

C20_Witness ==
    /\ pc = "extracted"
    /\ Len(srcs) >= 3
    /\ srcs[1] = srcs[2]
    /\ srcs[3].band = srcs[1].band
    /\ srcs[3] # srcs[1]
    /\ Len(mjd_days[srcs[1].band]) = Len(srcs)

\* ------------------------------------------- epoch, centering, stages
\* C21: default epoch: whenever phases are folded without a supplied epoch,
\* t0 is the minimum observation time of the reference band's series of that
\* object; stated for the per-candidate batch, whose series are g-band only:
\* each plotted object's phases are those of the fold about the smallest of
\* its own times.
C21_DefaultEpochIsMinimum ==
    plots # Unset =>
        \A i \in 1..Len(plots) :
            Len(obj_mjd_days(plots[i].objid)) >= 2 =>
                plots[i].phase =
                    FoldSeries(obj_mjd_days(plots[i].objid),
                               Min(obj_mjd_days(plots[i].objid)),
                               plots[i].period)

\* C22: centering is a display-only transform: the step that subtracts the
\* per-band mean from the magnitudes for the plots leaves the phases, the
\* observation times, the period and the stored magnitude series as they
\* were, and the phases drawn are those of the fold, centred or not.
C22_CenteringDisplayOnly ==
    [][(pc = "folded" /\ pc' = "plotted") =>
        /\ mags' = mags
        /\ phase' = phase
        /\ mjd_days' = mjd_days
        /\ best_period' = best_period
        /\ t0' = t0
        /\ \A b \in Bands :
            fig'[b].phase = FoldSeries(mjd_days[b], t0, best_period)]_vars

C22_Witness ==
    /\ pc = "plotted"
    /\ \E b \in Bands : \E k \in 1..Len(mags[b]) :
        /\ fig[b].together[k] # <<mags[b][k], 1>>
        /\ fig[b].together[k] # Zero
        /\ fig[b].phase[k] = phase[b][k]

\* C23: stage ordering: for every band the series is extracted before its
\* period is estimated and the period is estimated before any phase is
\* folded; the fold uses the period estimated for this object, and no later
\* stage changes what an earlier stage produced.
C23_StageOrdering ==
    [][/\ frequency' # Unset => mjd_days' # Unset
       /\ all_peak_freqs' # Unset => DOMAIN frequency' = Bands
       /\ best_period' # Unset =>
            (all_peak_freqs' # Unset /\ best_period' = RDiv(One, Mean(all_peak_freqs')))
       /\ phase' # Unset =>
            /\ best_period' # Unset
            /\ \A b \in Bands : phase'[b] = FoldSeries(mjd_days'[b], t0', best_period')
       /\ fig' # Unset => phase' # Unset
       /\ mjd_days # Unset => (mjd_days' = mjd_days /\ mags' = mags)
       /\ \A b \in DOMAIN frequency :
            /\ b \in DOMAIN frequency'
            /\ frequency'[b] = frequency[b]
            /\ power'[b] = power[b]
       /\ all_peak_freqs # Unset =>
            (all_peak_freqs' = all_peak_freqs /\ mean_peak_freq' = mean_peak_freq)
       /\ best_period # Unset => best_period' = best_period
       /\ phase # Unset => (phase' = phase /\ t0' = t0)]_vars

C23_Witness ==
    /\ pc = "plotted"
    /\ mjd_days # Unset
    /\ DOMAIN frequency = Bands
    /\ best_period # Unset
    /\ phase # Unset
    /\ Len(phase["g"]) >= 2
    /\ t0 # Zero

\* ------------------------------------------------------ batch, claims
\* the rows of the table that belong to the object, the others left out
OwnRows(objid) == SelectSeq(dia_sources, LAMBDA r : r.diaObjectId = objid)

FrequencySteps(minf, maxf) ==
    {RDiv(RMul(<<8, 1>>, RSub(maxf, minf)), <<8 * (NGrid - 1) + e, 1>>) : e \in -3..3}

\* the grid starting at zero, the minimum frequency dropped
StepGridFromZero(minf, df) ==
    [k \in 1..NGrid |-> RMul(<<k - 1, 1>>, df)]

\* minimum_frequency + df * np.arange(Nf)
StepGrid(minf, df) ==
    [k \in 1..NGrid |-> RAdd(minf, RMul(<<k - 1, 1>>, df))]

\* the two search ranges the notebook hands to autopower
SearchRanges == {<<min_freq_search, max_freq_search>>, <<minfreq, maxfreq>>}

InitGrid ==
    /\ StarIdle
    /\ BatchIdle
    /\ FoldIdle
    /\ FilterIdle
    /\ HtmIdle
    /\ search_range \in SearchRanges
    /\ grid_frequency = Unset
    /\ grid_power = Unset
    /\ peak_freq = Unset
    /\ peak_period = Unset
    /\ gpc = "call"

\* frequency, power = LombScargle(t, y).autopower(minimum_frequency=...,
\*                                                maximum_frequency=...)
AutoPower ==
    /\ gpc = "call"
    /\ \E df \in FrequencySteps(search_range[1], search_range[2]) :
        grid_frequency' = StepGrid(search_range[1], df)
    /\ grid_power' \in PowerArrays
    /\ gpc' = "returned"
    /\ UNCHANGED <<search_range, peak_freq, peak_period>>
    /\ UNCHANGED <<starVars, batchVars, foldVars, filterVars, htmVars>>

\* the frequency at np.argmax(power), and the period 1 / frequency
PeakFrequency ==
    /\ gpc = "returned"
    /\ peak_freq' = grid_frequency[ArgMax(grid_power)]
    /\ peak_period' = RDiv(One, grid_frequency[ArgMax(grid_power)])
    /\ gpc' = "peak"
    /\ UNCHANGED <<search_range, grid_frequency, grid_power>>
    /\ UNCHANGED <<starVars, batchVars, foldVars, filterVars, htmVars>>

NextGrid ==
    \/ AutoPower
    \/ PeakFrequency

SpecGrid == InitGrid /\ [][NextGrid]_vars

DistinctIds == {dia_sources[r].diaObjectId : r \in 1..Len(dia_sources)}

\* the steps the batch has left at most: one per pass of either loop and one
\* to enter and to leave each loop
BatchRank ==
    CASE bpc = "queried" -> 2 * Cardinality(DistinctIds) + 3
      [] bpc = "estimating" -> 2 * Cardinality(DistinctIds) + 2 - Len(LSfreq)
      [] bpc = "folding" -> Cardinality(DistinctIds) + 1 - Len(plots)
      [] OTHER -> 0

\* C27: bounded batch: for any finite candidate table the batch analysis
\* comes to an end: every step lowers the count of steps left, which is never
\* negative, and leaves the batch done, raised, or with its next pass or the
\* end of its loop open to it; the Period Estimator is invoked exactly once
\* per distinct object identifier of the table: never more passes than
\* distinct identifiers, and exactly as many when the estimation loop is over.
C27_BoundedBatch ==
    [][/\ BatchRank' < BatchRank
       /\ BatchRank' >= 0
       /\ bpc' = "estimating" => Len(LSfreq') <= Len(objids')
       /\ bpc' = "folding" => Len(plots') <= Len(objids')
       /\ Len(objids') = Cardinality(DistinctIds)
       /\ \A i, j \in 1..Len(objids') : objids'[i] = objids'[j] => i = j
       /\ Len(LSfreq') <= Cardinality(DistinctIds)
       /\ bpc' \in {"folding", "done"} => Len(LSfreq') = Cardinality(DistinctIds)]_vars

C27_Witness ==
    /\ bpc = "done"
    /\ Len(dia_sources) = 4
    /\ Cardinality(DistinctIds) = 2
    /\ Len(LSfreq) = 2
    /\ Len(RowsOf(1)) = 3

\* C28: batch result alignment: every pass of the estimation loop puts its
\* object's best frequency and peak power at the end of the two lists, so
\* that after the loop each list has exactly one entry per distinct object
\* identifier and entry i is the result of the object at position i of the
\* identifier list; the folding loop folds the observations of the object at
\* position i with the period 1 / LSfreq[i] of that object.
C28_BatchAlignment ==
    [][/\ (bpc = "estimating" /\ Len(LSfreq') > Len(LSfreq)) =>
            /\ LSfreq' = Append(LSfreq, obj_frequency'[max_power'])
            /\ LSpower' = Append(LSpower, obj_power'[max_power'])
            /\ Len(LSfreq') <= Len(objids)
       /\ Len(LSfreq') = Len(LSpower')
       /\ bpc' \in {"folding", "done"} =>
            /\ Len(LSfreq') = Len(objids')
            /\ Len(objids') = Cardinality(DistinctIds)
       /\ \A i \in 1..Len(plots') :
            /\ plots'[i].objid = objids'[i]
            /\ plots'[i].period = RDiv(One, LSfreq'[i])
            /\ plots'[i].phase =
                    FoldSeries(obj_mjd_days(objids'[i]), Zero, RDiv(One, LSfreq'[i]))]_vars

C28_Witness ==
    /\ bpc = "done"
    /\ Len(LSfreq) = 2
    /\ Len(LSpower) = 2
    /\ LSfreq[1] # LSfreq[2]
    /\ LSpower[1] # LSpower[2]
    /\ plots[1].objid = 1
    /\ plots[2].objid = 2
    /\ plots[1].period # plots[2].period
    /\ Len(RowsOf(1)) >= 2
    /\ Len(RowsOf(2)) >= 2

\* ------------------------------------------------ consensus, claims
\* the frequency is one of the search range of the single-star pipeline
InSearchRange(f) == RLeq(min_freq_search, f) /\ RLeq(f, max_freq_search)

\* C29: the consensus period stays in the search range: when every
\* per-band best frequency lies within [1/max_period, 1/min_period], their
\* mean, the consensus frequency, lies in the same interval, and the
\* consensus period 1/mean is positive and within [min_period, max_period];
\* the consensus frequency need not be a grid frequency of any band.
C29_ConsensusInRange ==
    (all_peak_freqs # Unset
            /\ \A i \in 1..Len(all_peak_freqs) : InSearchRange(all_peak_freqs[i])) =>
        /\ InSearchRange(mean_peak_freq)
        /\ best_period # Unset =>
            /\ RLess(Zero, best_period)
            /\ RLeq(min_period, best_period)
            /\ RLeq(best_period, max_period)

C29_Witness ==
    /\ pc = "period"
    /\ \A i \in 1..Len(all_peak_freqs) : InSearchRange(all_peak_freqs[i])
    /\ \A b \in Bands : \A k \in 1..Len(frequency[b]) : frequency[b][k] # mean_peak_freq
    /\ RLess(min_period, best_period)
    /\ RLess(best_period, max_period)

\* --------------------------------- spatial image query by HTM pixel index
\* level = 10  # the resolution of the HTM grid
level == 10

\* the level of the dimension the index is passed under: htm20=htm_id
htm20 == 20

\* A sky position as the path of HTM trixels that hold it: one of the eight
\* root trixels 8..15, then the child 0..3 taken at every level down to the
\* finest level used.  The paths kept are those whose children alternate
\* between two values.
Positions ==
    {[k \in 1..(htm20 + 1) |->
        IF k = 1 THEN root ELSE IF k % 2 = 0 THEN c1 ELSE c2] :
            root \in 8..15, c1 \in 0..3, c2 \in 0..3}

\* HtmPixelization(lvl).index(v): the root trixel and the children down to
\* the level, the digits of the integer index (four bits, then two a level)
HtmIndex(path, lvl) == SubSeq(path, 1, lvl + 1)

\* the level an index belongs to, read off its length
LevelOf(id) == Len(id) - 1

InitHtm ==
    /\ StarIdle
    /\ BatchIdle
    /\ FoldIdle
    /\ FilterIdle
    /\ GridIdle
    /\ boresight \in Positions
    /\ htm_id = Unset
    /\ calexp_query = Unset
    /\ source_query = Unset
    /\ hpc = "start"

\* pixelization = lsst.sphgeom.HtmPixelization(level)
\* htm_id = pixelization.index(UnitVector3d(LonLat.fromDegrees(ra, dec)))
Pixelize ==
    /\ hpc = "start"
    /\ htm_id' = HtmIndex(boresight, level)
    /\ hpc' = "indexed"
    /\ UNCHANGED <<boresight, calexp_query, source_query>>
    /\ UNCHANGED <<starVars, batchVars, foldVars, filterVars, gridVars>>

\* registry.queryDatasets("calexp", htm20=htm_id, where=..., bind=...)
QueryCalexp ==
    /\ hpc = "indexed"
    /\ calexp_query' = [dimension |-> htm20, id |-> htm_id]
    /\ hpc' = "calexp"
    /\ UNCHANGED <<boresight, htm_id, source_query>>
    /\ UNCHANGED <<starVars, batchVars, foldVars, filterVars, gridVars>>

\* registry.queryDatasets("source", htm20=htm_id, band="i")
QuerySource ==
    /\ hpc = "calexp"
    /\ source_query' = [dimension |-> htm20, id |-> htm_id, band |-> "i"]
    /\ hpc' = "source"
    /\ UNCHANGED <<boresight, htm_id, calexp_query>>
    /\ UNCHANGED <<starVars, batchVars, foldVars, filterVars, gridVars>>

NextHtm ==
    \/ Pixelize
    \/ QueryCalexp
    \/ QuerySource

SpecHtm == InitHtm /\ [][NextHtm]_vars

\* C30: HTM level consistency: the pixel index passed as the spatial
\* constraint of a dataset query was computed by a pixelization of the same
\* HTM level as the dimension it is passed under, and is the index of the
\* trixel of that level holding the position.
C30_HtmLevelConsistent ==
    /\ calexp_query # Unset =>
        /\ LevelOf(calexp_query.id) = calexp_query.dimension
        /\ calexp_query.id = HtmIndex(boresight, calexp_query.dimension)
    /\ source_query # Unset =>
        /\ LevelOf(source_query.id) = source_query.dimension
        /\ source_query.id = HtmIndex(boresight, source_query.dimension)

====
